---- MODULE Spec2Model ----
(***************************************************************************)
(* InterviewAnalyzer (src/app.py): the transcript analysis pipeline.       *)
(*                                                                         *)
(* Python values that may be None are tagged records (None, Str, Txt,      *)
(* File, Dict).  A text the code inspects character by character (the      *)
(* transcript, a chat response) is a sequence of one-character strings;    *)
(* identifiers that are only compared (URLs, keys, messages) are strings.  *)
(***************************************************************************)
EXTENDS Integers, Sequences, FiniteSets, TLC

VARIABLES
    session_state,            \* st.session_state (src/app.py:25-46)
    widgets,                  \* current values of the file_uploader and the URL text_input
    DEFAULT_MISTRAL_API_KEY,  \* os.getenv("MISTRAL_API_KEY") (src/app.py:49)
    pc,                       \* position of the script / of the function under call
    requests,                 \* HTTP requests posted since the last click, in order
    locals,                   \* local variables of process_interview / analyze_interview
    ui_error,                 \* the message last shown with st.error
    arg,                      \* argument of the function under call
    ret,                      \* its return value
    origin                    \* history: which run wrote each stored result

vars == <<session_state, widgets, DEFAULT_MISTRAL_API_KEY, pc, requests, locals,
          ui_error, arg, ret, origin>>

----------------------------------------------------------------------------
(* Bounds of the model. *)

MaxSegments == 100     \* longest segment list given to segment_conversation
MaxRatioSegs == 4      \* longest segment list given to calculate_talk_ratio
MaxDur == 5            \* longest segment duration (seconds)
MaxGap == 1            \* largest pause between consecutive segments
MaxAtoms == 3          \* transcript = at most this many phrases
MaxPieces == 3         \* scoring response = at most this many pieces

----------------------------------------------------------------------------
(* Python values. *)

None == [py |-> "None"]
Str(s) == [py |-> "str", v |-> s]
Txt(s) == [py |-> "text", v |-> s]
File(f) == [py |-> "file", v |-> f]
Dict(d) == [py |-> "dict", v |-> d]

\* bool(x) as the code's `if x`, `x or y` and `if not x` use it
Truthy(x) ==
    CASE x.py = "None" -> FALSE
      [] x.py = "str"  -> x.v # ""
      [] x.py = "text" -> x.v # <<>>
      [] x.py = "file" -> TRUE
      [] x.py = "dict" -> DOMAIN x.v # {}

\* d.get(k, default)
DictGet(d, k, default) == IF k \in DOMAIN d THEN d[k] ELSE default

EmptyDict == [k \in {} |-> 0]

Min(a, b) == IF a < b THEN a ELSE b
Max(a, b) == IF a > b THEN a ELSE b

\* s[lo:hi] for 0 <= lo, 0 <= hi: out-of-range indices are clamped
Slice(s, lo, hi) == SubSeq(s, Min(lo, Len(s)) + 1, Min(hi, Len(s)))

\* s[lo:]
SliceFrom(s, lo) == SubSeq(s, Min(lo, Len(s)) + 1, Len(s))

----------------------------------------------------------------------------
(* str methods, on sequences of characters. *)

\* the lower-case letter of each upper-case letter
ToLower ==
    [A |-> "a", B |-> "b", C |-> "c", D |-> "d", E |-> "e", F |-> "f",
     G |-> "g", H |-> "h", I |-> "i", J |-> "j", K |-> "k", L |-> "l",
     M |-> "m", N |-> "n", O |-> "o", P |-> "p", Q |-> "q", R |-> "r",
     S |-> "s", T |-> "t", U |-> "u", V |-> "v", W |-> "w", X |-> "x",
     Y |-> "y", Z |-> "z"]

LowerChar(c) == IF c \in DOMAIN ToLower THEN ToLower[c] ELSE c

RECURSIVE LowerFrom(_, _)
LowerFrom(s, i) ==
    IF i > Len(s) THEN <<>> ELSE <<LowerChar(s[i])>> \o LowerFrom(s, i + 1)

\* s.lower()
str_lower(s) == LowerFrom(s, 1)

IsSpace(c) == c \in {" ", "\n", "\t"}

\* w occurs in s at position i
MatchAt(s, w, i) ==
    /\ i >= 1
    /\ i + Len(w) - 1 <= Len(s)
    /\ \A k \in 1..Len(w) : s[i + k - 1] = w[k]

\* w in s
str_contains(s, w) == \E i \in 1..(Len(s) - Len(w) + 1) : MatchAt(s, w, i)

RECURSIVE FindFrom(_, _, _)
FindFrom(s, w, i) ==
    IF i + Len(w) - 1 > Len(s) THEN 0
    ELSE IF MatchAt(s, w, i) THEN i
    ELSE FindFrom(s, w, i + 1)

\* s.find(w) + 1, or 0 when w is not in s
str_find(s, w) == FindFrom(s, w, 1)

RECURSIVE CountFrom(_, _, _)
CountFrom(s, w, i) ==
    IF i + Len(w) - 1 > Len(s) THEN 0
    ELSE IF MatchAt(s, w, i) THEN 1 + CountFrom(s, w, i + Len(w))
    ELSE CountFrom(s, w, i + 1)

\* s.count(w): non-overlapping occurrences, scanning from the left
str_count(s, w) == CountFrom(s, w, 1)

\* len(s.split()): the maximal runs of non-whitespace characters
str_split_len(s) ==
    Cardinality({i \in 1..Len(s) :
                    ~IsSpace(s[i]) /\ (i = 1 \/ IsSpace(s[i - 1]))})

\* s.split(sep)[1], for sep in s
str_split_1(s, sep) ==
    LET i == str_find(s, sep)
        rest == SubSeq(s, i + Len(sep), Len(s))
        j == str_find(rest, sep)
    IN  IF j = 0 THEN rest ELSE SubSeq(rest, 1, j - 1)

\* s.split(sep)[0]
str_split_0(s, sep) ==
    LET j == str_find(s, sep)
    IN  IF j = 0 THEN s ELSE SubSeq(s, 1, j - 1)

\* s.strip()
str_strip(s) ==
    IF \A i \in 1..Len(s) : IsSpace(s[i]) THEN <<>>
    ELSE LET a == CHOOSE i \in 1..Len(s) :
                    ~IsSpace(s[i]) /\ \A j \in 1..(i - 1) : IsSpace(s[j])
             b == CHOOSE i \in 1..Len(s) :
                    ~IsSpace(s[i]) /\ \A j \in (i + 1)..Len(s) : IsSpace(s[j])
         IN  SubSeq(s, a, b)

Digits == <<"0","1","2","3","4","5","6","7","8","9">>
IsDigit(c) == \E d \in 1..Len(Digits) : Digits[d] = c
DigitVal(c) == (CHOOSE d \in 1..Len(Digits) : Digits[d] = c) - 1

RECURSIVE DigitsValue(_)
DigitsValue(s) ==
    IF s = <<>> THEN 0
    ELSE IF s[Len(s)] = "_" THEN DigitsValue(SubSeq(s, 1, Len(s) - 1))
    ELSE 10 * DigitsValue(SubSeq(s, 1, Len(s) - 1)) + DigitVal(s[Len(s)])

\* int(s): [ok |-> FALSE] is ValueError.  Surrounding whitespace, one sign and
\* single underscores between digits are accepted.
py_int(s) ==
    LET t == str_strip(s)
        signed == t # <<>> /\ t[1] \in {"+", "-"}
        body == IF signed THEN SubSeq(t, 2, Len(t)) ELSE t
        wellformed ==
            /\ body # <<>>
            /\ \A i \in 1..Len(body) : IsDigit(body[i]) \/ body[i] = "_"
            /\ IsDigit(body[1]) /\ IsDigit(body[Len(body)])
            /\ \A i \in 1..(Len(body) - 1) : ~(body[i] = "_" /\ body[i + 1] = "_")
    IN  IF ~wellformed THEN [ok |-> FALSE, value |-> 0]
        ELSE [ok |-> TRUE,
              value |-> IF signed /\ t[1] = "-" THEN 0 - DigitsValue(body)
                        ELSE DigitsValue(body)]

\* the characters of a phrase list, concatenated
RECURSIVE Flatten(_)
Flatten(ss) == IF ss = <<>> THEN <<>> ELSE Head(ss) \o Flatten(Tail(ss))

----------------------------------------------------------------------------
(* segment_conversation (src/app.py:121-139) *)

\* Totals up to 400 where the double product total * 0.70 lies just below the
\* exact integer value, so that int() truncates to one less than the floor
\* of the exact product (90 * 0.70 is 62.99999999999999).  For 0.15, 0.45 and
\* 0.90 the truncated double equals the exact floor for every total to 400.
FloatShort70 == {90, 170, 180, 330, 340, 350, 360}

\* int(total_segments * pct / 100) as the float arithmetic computes it
int_of_product(total, pct) ==
    IF pct = 70 /\ total \in FloatShort70
    THEN (total * pct) \div 100 - 1
    ELSE (total * pct) \div 100

intro_end(total) == Max(1, int_of_product(total, 15))
behavioral_end(total) == Max(2, int_of_product(total, 45))
\* technical_end without its minimum of 3
technical_end_no_floor(total) == int_of_product(total, 70)

technical_end(total) == Max(3, int_of_product(total, 70))
candidate_q_end(total) == Max(4, int_of_product(total, 90))

StageNames == <<"introductions", "behavioral_questions", "technical_questions",
                "candidate_questions", "wrap_up">>

EmptyStages ==
    [introductions |-> <<>>, behavioral_questions |-> <<>>,
     technical_questions |-> <<>>, candidate_questions |-> <<>>, wrap_up |-> <<>>]

\* segment_conversation with wrap_up starting one past candidate_q_end
segment_conversation_skip(segments) ==
    LET total_segments == Len(segments)
    IN  IF total_segments > 0
        THEN [introductions |-> Slice(segments, 0, intro_end(total_segments)),
              behavioral_questions |->
                  Slice(segments, intro_end(total_segments), behavioral_end(total_segments)),
              technical_questions |->
                  Slice(segments, behavioral_end(total_segments), technical_end(total_segments)),
              candidate_questions |->
                  Slice(segments, technical_end(total_segments), candidate_q_end(total_segments)),
              wrap_up |-> SliceFrom(segments, candidate_q_end(total_segments) + 1)]
        ELSE EmptyStages

segment_conversation(segments) ==
    LET total_segments == Len(segments)
    IN  IF total_segments > 0
        THEN [introductions |-> Slice(segments, 0, intro_end(total_segments)),
              behavioral_questions |->
                  Slice(segments, intro_end(total_segments), behavioral_end(total_segments)),
              technical_questions |->
                  Slice(segments, behavioral_end(total_segments), technical_end(total_segments)),
              candidate_questions |->
                  Slice(segments, technical_end(total_segments), candidate_q_end(total_segments)),
              wrap_up |-> SliceFrom(segments, candidate_q_end(total_segments))]
        ELSE EmptyStages

----------------------------------------------------------------------------
(* calculate_talk_ratio (src/app.py:141-151) *)

Duration(segment) == DictGet(segment, "end", 0) - DictGet(segment, "start", 0)

RECURSIVE SumDurations(_, _, _)
\* sum of the durations of the segments whose 0-based index has the parity
SumDurations(segments, parity, n) ==
    IF n = 0 THEN 0
    ELSE SumDurations(segments, parity, n - 1)
         + (IF (n - 1) % 2 = parity THEN Duration(segments[n]) ELSE 0)

interviewer_duration(segments) == SumDurations(segments, 0, Len(segments))
candidate_duration(segments) == SumDurations(segments, 1, Len(segments))

\* calculate_talk_ratio dividing whenever the candidate time is >= 0
calculate_talk_ratio_nonneg(segments) ==
    IF candidate_duration(segments) >= 0
    THEN [num |-> interviewer_duration(segments), den |-> candidate_duration(segments)]
    ELSE [num |-> interviewer_duration(segments), den |-> 1]

\* The quotient is kept exact, as numerator and denominator; the interviewer
\* duration returned alone has denominator 1.
calculate_talk_ratio(segments) ==
    IF candidate_duration(segments) > 0
    THEN [num |-> interviewer_duration(segments), den |-> candidate_duration(segments)]
    ELSE [num |-> interviewer_duration(segments), den |-> 1]

----------------------------------------------------------------------------
(* extract_call_metrics (src/app.py:153-163) *)

filler_words ==
    << <<"u","m">>, <<"u","h">>, <<"l","i","k","e">>,
       <<"y","o","u"," ","k","n","o","w">>,
       <<"a","c","t","u","a","l","l","y">>,
       <<"b","a","s","i","c","a","l","l","y">> >>

RECURSIVE SumCounts(_, _)
SumCounts(text, n) ==
    IF n = 0 THEN 0
    ELSE SumCounts(text, n - 1) + str_count(text, filler_words[n])

filler_count(transcript) == SumCounts(str_lower(transcript), Len(filler_words))

word_count(transcript) == str_split_len(transcript)

\* extract_call_metrics dividing by the word count even when it is 0
extract_call_metrics_unguarded(transcript, segments) ==
    [word_count |-> word_count(transcript),
     duration |-> IF segments # <<>> THEN segments[Len(segments)]["end"] ELSE 0,
     talk_ratio |-> calculate_talk_ratio(segments),
     filler_words |-> filler_count(transcript),
     filler_frequency |->
        [num |-> filler_count(transcript), den |-> word_count(transcript)]]

\* filler_frequency is the exact quotient num / den
extract_call_metrics(transcript, segments) ==
    [word_count |-> word_count(transcript),
     duration |-> IF segments # <<>> THEN segments[Len(segments)]["end"] ELSE 0,
     talk_ratio |-> calculate_talk_ratio(segments),
     filler_words |-> filler_count(transcript),
     filler_frequency |->
        [num |-> filler_count(transcript),
         den |-> IF word_count(transcript) > 0 THEN word_count(transcript) ELSE 1]]

----------------------------------------------------------------------------
(* Score parsing in analyze_interview (src/app.py:179-190) *)

LabelCommunication == <<"c","o","m","m","u","n","i","c","a","t","i","o","n",":">>
LabelTechnicalSkill == <<"t","e","c","h","n","i","c","a","l"," ","s","k","i","l","l",":">>
LabelStarMethodUsage == <<"s","t","a","r"," ","m","e","t","h","o","d"," ","u","s","a","g","e",":">>

ScoreLabels ==
    << [key |-> "communication", label |-> LabelCommunication],
       [key |-> "technical_skill", label |-> LabelTechnicalSkill],
       [key |-> "star_method_usage", label |-> LabelStarMethodUsage] >>

ScoreKeys == {"communication", "technical_skill", "star_method_usage"}

ZeroScores == [communication |-> 0, technical_skill |-> 0, star_method_usage |-> 0]

\* int(lowered.split(label)[1].split("/")[0].strip()), lowered = text.lower()
parse_field(lowered, label) ==
    py_int(str_strip(str_split_0(str_split_1(lowered, label), <<"/">>)))

\* one `if label in text.lower(): scores[key] = int(...)` statement of the try
\* block, run on the state the statements before it left
parse_label(prev, lowered, lab) ==
    IF prev.raised THEN prev
    ELSE IF ~str_contains(lowered, lab.label) THEN prev
    ELSE LET parsed == parse_field(lowered, lab.label)
         IN  IF parsed.ok
             THEN [raised |-> FALSE,
                   scores |-> (lab.key :> parsed.value) @@ prev.scores]
             ELSE [raised |-> TRUE, scores |-> prev.scores]

\* the three statements of the try block, in order
parse_labels(text) ==
    LET lowered == str_lower(text)
        start == [raised |-> FALSE, scores |-> EmptyDict]
        first == parse_label(start, lowered, ScoreLabels[1])
        second == parse_label(first, lowered, ScoreLabels[2])
    IN  parse_label(second, lowered, ScoreLabels[3])

\* parse_scores keeping what was parsed before a failing field
parse_scores_keep_partial(scoring_text) ==
    IF scoring_text = None THEN ZeroScores
    ELSE parse_labels(scoring_text.v).scores

\* scores after the try/except: scoring_text None raises at .lower()
parse_scores(scoring_text) ==
    IF scoring_text = None THEN ZeroScores
    ELSE LET tried == parse_labels(scoring_text.v)
         IN  IF tried.raised THEN ZeroScores ELSE tried.scores

----------------------------------------------------------------------------
(* State after the script's first lines (src/app.py:25-46). *)

InitialSessionState ==
    [uploaded_audio |-> None, audio_url |-> "", transcript |-> <<>>,
     segments |-> <<>>, conversation_stages |-> EmptyDict, strengths |-> <<>>,
     improvements |-> <<>>, candidate_scores |-> EmptyDict,
     follow_up_questions |-> <<>>, processing |-> FALSE, api_key |-> ""]

NoWidgets == [file |-> None, url |-> ""]

NoLocals ==
    [step |-> 0, strengths |-> None, improvements |-> None,
     scoring_text |-> None, follow_up |-> None]

\* the session fields process_interview writes: after transcribe_audio
\* (src/app.py:266-268) and after analyze_interview (src/app.py:272-275)
TranscriptionFields == {"transcript", "segments", "conversation_stages"}
AnalysisFields ==
    {"strengths", "improvements", "candidate_scores", "follow_up_questions"}
StoredFields == TranscriptionFields \cup AnalysisFields

\* History of the stored fields.  field[f] is "initial" while no run has
\* written f, "latest" when f was last written by the most recent run whose
\* transcription succeeded, "earlier" when it was last written by any other
\* run; transcribed tells whether the run in progress has had its
\* transcription succeed.
NoOrigin == [transcribed |-> FALSE, field |-> [f \in StoredFields |-> "initial"]]

\* a run's transcription succeeds: what earlier runs wrote is no longer "latest"
transcription_succeeded(o) ==
    [transcribed |-> TRUE,
     field |-> [f \in StoredFields |->
                  IF o.field[f] = "latest" THEN "earlier" ELSE o.field[f]]]

\* the run in progress writes the given fields
written(o, fields) ==
    [o EXCEPT !.field =
        [f \in StoredFields |->
            IF f \in fields
            THEN IF o.transcribed THEN "latest" ELSE "earlier"
            ELSE o.field[f]]]

\* the run in progress is over
run_over(o) == [o EXCEPT !.transcribed = FALSE]

\* the application at rest, for the specifications that call one function
AppAtRest ==
    /\ session_state = InitialSessionState
    /\ widgets = NoWidgets
    /\ DEFAULT_MISTRAL_API_KEY = None
    /\ requests = <<>>
    /\ locals = NoLocals
    /\ ui_error = None
    /\ origin = NoOrigin

AppUnchanged ==
    UNCHANGED <<session_state, widgets, DEFAULT_MISTRAL_API_KEY, requests, locals,
                ui_error, origin>>

----------------------------------------------------------------------------
(* Inputs of the functions called on their own. *)

Segment(start, end, text) == [start |-> start, end |-> end, text |-> text]

\* n segments one second long, all different
DistinctSegments(n) == [i \in 1..n |-> Segment(i - 1, i, ToString(i))]

\* n copies of one segment
RepeatedSegments(n) == [i \in 1..n |-> Segment(0, 1, "same")]

SegmentLists ==
    {DistinctSegments(n) : n \in 0..MaxSegments}
        \cup {RepeatedSegments(n) : n \in 0..MaxSegments}

RECURSIVE StartOf(_, _, _)
\* start of the i-th segment when segment k lasts ds[k] and gap separates them
StartOf(ds, gap, i) ==
    IF i = 1 THEN 0 ELSE StartOf(ds, gap, i - 1) + ds[i - 1] + gap

TimedSegments(ds, gap) ==
    [i \in 1..Len(ds) |->
        Segment(StartOf(ds, gap, i), StartOf(ds, gap, i) + ds[i], ToString(i))]

\* every list of at most MaxRatioSegs segments with end >= start >= 0
TimedSegmentLists ==
    {TimedSegments(ds, gap) :
        ds \in UNION {[1..k -> 0..MaxDur] : k \in 0..MaxRatioSegs},
        gap \in 0..MaxGap}

Phrases ==
    { <<"u","m">>, <<"u","m"," ">>, <<"U","h">>, <<"I"," ","l","i","k","e"," ","t","h","i","s"," ">>, <<"l","i","k","e","l","y"," ">>, <<"y","o","u"," ","k","n","o","w"," ">>,
      <<"A","c","t","u","a","l","l","y">>, <<"b","a","s","i","c","a","l","l","y"," ">>, <<" ">>, <<"\n">> }

Transcripts ==
    {Flatten(ps) : ps \in UNION {[1..k -> Phrases] : k \in 0..MaxAtoms}}

\* the segment lists extract_call_metrics is called with
MetricSegmentLists ==
    {<<>>, TimedSegments(<<5, 3, 4, 1>>, 0), TimedSegments(<<2>>, 0)}

PieceLabels ==
    { <<"c","o","m","m","u","n","i","c","a","t","i","o","n",":">>,
      <<"T","e","c","h","n","i","c","a","l"," ","S","k","i","l","l",":">>,
      <<"S","T","A","R"," ","M","e","t","h","o","d"," ","U","s","a","g","e",":">> }

PieceValues ==
    { <<>>, <<" ","7","/","1","0"," ">>, <<" ","n","/","a","/","1","0"," ">>, <<" ","8">> }

\* a label followed by a value or by nothing, or words without a label
Pieces ==
    {l \o v : l \in PieceLabels, v \in PieceValues}
        \cup { <<"S","c","o","r","e","s",":"," ">> }

\* what the scoring call can leave in scoring_text: None when the call failed
ScoringTexts ==
    {None} \cup
    {Txt(Flatten(ps)) : ps \in UNION {[1..k -> Pieces] : k \in 0..MaxPieces}}

----------------------------------------------------------------------------
(* segment_conversation called on its own. *)

InitSegment ==
    /\ AppAtRest
    /\ pc = "call"
    /\ arg \in SegmentLists
    /\ ret = None

CallSegmentConversation ==
    /\ pc = "call"
    /\ ret' = segment_conversation(arg)
    /\ pc' = "return"
    /\ UNCHANGED arg
    /\ AppUnchanged

SpecSegment == InitSegment /\ [][CallSegmentConversation]_vars

\* the stage lists in the fixed stage order, concatenated
StagesConcatenated(stages) ==
    stages.introductions \o stages.behavioral_questions \o stages.technical_questions
        \o stages.candidate_questions \o stages.wrap_up

\* C1: the five stage lists returned by segment_conversation, concatenated in
\* the order introductions, behavioral_questions, technical_questions,
\* candidate_questions, wrap_up, are the original sequence: the cut points are
\* non-decreasing, the stage lengths add up to N, nothing is duplicated or
\* omitted.
C1_StagesPartitionSegments ==
    pc = "return" =>
        /\ DOMAIN ret = {StageNames[k] : k \in 1..Len(StageNames)}
        /\ StagesConcatenated(ret) = arg
        /\ Len(ret.introductions) + Len(ret.behavioral_questions)
             + Len(ret.technical_questions) + Len(ret.candidate_questions)
             + Len(ret.wrap_up) = Len(arg)
        /\ Len(arg) > 0 =>
             /\ 1 <= intro_end(Len(arg))
             /\ intro_end(Len(arg)) <= behavioral_end(Len(arg))
             /\ behavioral_end(Len(arg)) <= technical_end(Len(arg))
             /\ technical_end(Len(arg)) <= candidate_q_end(Len(arg))

\* 20 distinct segments are cut at 3, 9, 14, 18 into stages of 3, 6, 5, 4, 2
C1_Witness ==
    /\ pc = "return"
    /\ arg = DistinctSegments(20)
    /\ Len(ret.introductions) = 3
    /\ Len(ret.behavioral_questions) = 6
    /\ Len(ret.technical_questions) = 5
    /\ Len(ret.candidate_questions) = 4
    /\ Len(ret.wrap_up) = 2

\* C8: with N >= 4 segments each of introductions, behavioral_questions,
\* technical_questions and candidate_questions is non-empty; with N < 4 the
\* call still returns the five stages, and the k-th stage is empty for k > N.
C8_NonFinalStagesNonEmpty ==
    pc = "return" =>
        /\ DOMAIN ret = {StageNames[k] : k \in 1..Len(StageNames)}
        /\ Len(arg) >= 4 =>
             \A k \in 1..4 : ret[StageNames[k]] # <<>>
        /\ Len(arg) < 4 =>
             \A k \in 1..5 : k > Len(arg) => ret[StageNames[k]] = <<>>

\* four segments give one segment to each non-final stage and none to wrap_up
C8_Witness ==
    /\ pc = "return"
    /\ Len(arg) = 4
    /\ \A k \in 1..4 : Len(ret[StageNames[k]]) = 1
    /\ ret.wrap_up = <<>>

----------------------------------------------------------------------------
(* calculate_talk_ratio called on its own. *)

InitTalkRatio ==
    /\ AppAtRest
    /\ pc = "call"
    /\ arg \in TimedSegmentLists
    /\ ret = None

CallCalculateTalkRatio ==
    /\ pc = "call"
    /\ ret' = calculate_talk_ratio(arg)
    /\ pc' = "return"
    /\ UNCHANGED arg
    /\ AppUnchanged

SpecTalkRatio == InitTalkRatio /\ [][CallCalculateTalkRatio]_vars

RECURSIVE TalkTime(_, _)
\* total of end - start over the segments at the 0-based indices of the set
TalkTime(segments, indices) ==
    IF indices = {} THEN 0
    ELSE LET i == CHOOSE i \in indices : TRUE
         IN  (segments[i + 1].end - segments[i + 1].start)
                + TalkTime(segments, indices \ {i})

EvenIndices(segments) == {i \in 0..(Len(segments) - 1) : i % 2 = 0}
OddIndices(segments) == {i \in 0..(Len(segments) - 1) : i % 2 = 1}

\* C7: calculate_talk_ratio returns (time of the even 0-based indices) / (time
\* of the odd indices); exactly when the candidate time is 0 it returns the
\* interviewer time unchanged; it never divides by zero.
C7_TalkRatio ==
    pc = "return" =>
        /\ ret.den # 0
        /\ TalkTime(arg, OddIndices(arg)) # 0 =>
             ret = [num |-> TalkTime(arg, EvenIndices(arg)),
                    den |-> TalkTime(arg, OddIndices(arg))]
        /\ TalkTime(arg, OddIndices(arg)) = 0 =>
             ret = [num |-> TalkTime(arg, EvenIndices(arg)), den |-> 1]

\* durations 5, 3, 4, 1 give 9/4
C7_Witness ==
    /\ pc = "return"
    /\ arg = TimedSegments(<<5, 3, 4, 1>>, 0)
    /\ ret = [num |-> 9, den |-> 4]

----------------------------------------------------------------------------
(* extract_call_metrics called on its own. *)

InitMetrics ==
    /\ AppAtRest
    /\ pc = "call"
    /\ arg \in [transcript : Transcripts, segments : MetricSegmentLists]
    /\ ret = None

CallExtractCallMetrics ==
    /\ pc = "call"
    /\ ret' = extract_call_metrics(arg.transcript, arg.segments)
    /\ pc' = "return"
    /\ UNCHANGED arg
    /\ AppUnchanged

SpecMetrics == InitMetrics /\ [][CallExtractCallMetrics]_vars

\* C6 as stated: filler_frequency lies in [0,1], the filler count never
\* exceeds the count of whitespace-delimited words, and the frequency is 0
\* when the word count is 0.
C6_FillerFrequencyInUnitInterval ==
    pc = "return" =>
        /\ 0 <= ret.filler_frequency.num
        /\ ret.filler_frequency.num <= ret.filler_frequency.den
        /\ ret.filler_words <= ret.word_count
        /\ ret.word_count = 0 => ret.filler_frequency.num = 0

\* C6 as amended: filler_frequency is filler_words / word_count, at least 0,
\* and 0 when the word count is 0 (it is filler_words / 1 then, and a
\* transcript without a word has no filler); it is not bounded by 1.
C6_FillerFrequency ==
    pc = "return" =>
        /\ ret.word_count = str_split_len(arg.transcript)
        /\ ret.filler_words >= 0
        /\ ret.filler_frequency.num = ret.filler_words
        /\ ret.filler_frequency.den >= 1
        /\ ret.word_count > 0 => ret.filler_frequency.den = ret.word_count
        /\ ret.word_count = 0 => ret.filler_frequency.num = 0

\* "um I like this um": 3 fillers in 5 words
C6_Witness ==
    /\ pc = "return"
    /\ arg.transcript = Flatten(<< <<"u","m"," ">>,
            <<"I"," ","l","i","k","e"," ","t","h","i","s"," ">>, <<"u","m">> >>)
    /\ ret.word_count = 5
    /\ ret.filler_frequency = [num |-> 3, den |-> 5]

----------------------------------------------------------------------------
(* The score parsing of analyze_interview run on its own. *)

InitScores ==
    /\ AppAtRest
    /\ pc = "call"
    /\ arg \in ScoringTexts
    /\ ret = None

CallParseScores ==
    /\ pc = "call"
    /\ ret' = parse_scores(arg)
    /\ pc' = "return"
    /\ UNCHANGED arg
    /\ AppUnchanged

SpecScores == InitScores /\ [][CallParseScores]_vars

\* the labels that occur in the lower-cased text, as indices of ScoreLabels
LabelsPresent(lowered) ==
    {n \in 1..Len(ScoreLabels) : str_contains(lowered, ScoreLabels[n].label)}

\* the text between the n-th label and the next "/", as an integer
LabelValue(lowered, n) == parse_field(lowered, ScoreLabels[n].label)

\* C2 as stated: the score map has exactly the three keys and is either the
\* three parsed integers (when all three labels are present and parse) or 0
\* for all three.
C2_ScoresAllOrNothing ==
    pc = "return" =>
        /\ DOMAIN ret = ScoreKeys
        /\ \/ ret = ZeroScores
           \/ /\ arg # None
              /\ LET lowered == str_lower(arg.v)
                 IN  /\ LabelsPresent(lowered) = 1..Len(ScoreLabels)
                     /\ \A n \in 1..Len(ScoreLabels) :
                            /\ LabelValue(lowered, n).ok
                            /\ ret[ScoreLabels[n].key] = LabelValue(lowered, n).value

\* C2 as amended: the map is 0 for all three keys when there is no scoring
\* text or when a label that occurs in the text is not followed by an integer
\* before the next "/"; otherwise it has exactly the keys whose labels occur
\* in the text, each with its parsed integer.  A missing label leaves its key
\* out and does not zero the others.
C2_ScoresZeroedOrPresentLabels ==
    pc = "return" =>
        IF arg = None THEN ret = ZeroScores
        ELSE LET lowered == str_lower(arg.v)
                 present == LabelsPresent(lowered)
             IN  IF \E n \in present : ~LabelValue(lowered, n).ok
                 THEN ret = ZeroScores
                 ELSE /\ DOMAIN ret = {ScoreLabels[n].key : n \in present}
                      /\ \A n \in present :
                            ret[ScoreLabels[n].key] = LabelValue(lowered, n).value

\* "communication: 7/10 Technical Skill: 7/10 " gives two keys
C2_Witness ==
    /\ pc = "return"
    /\ arg # None
    /\ LabelsPresent(str_lower(arg.v)) = {1, 2}
    /\ ret = [communication |-> 7, technical_skill |-> 7]

----------------------------------------------------------------------------
(* The two HTTP boundaries: transcribe_audio (src/app.py:69-97) and          *)
(* chat_with_transcript (src/app.py:99-117).  `outcome` is what the service  *)
(* answers if a request is posted.                                           *)

Files == {"f1"}
Urls == {"u1"}
Keys == {"k1"}

\* st.session_state.api_key if st.session_state.api_key else DEFAULT_MISTRAL_API_KEY
api_key_in_use(session_key, default_key) ==
    IF session_key # "" THEN Str(session_key) ELSE default_key

KeyRequiredLong ==
    "API key is required. Please provide a Mistral API key in the API Configuration section."

\* what follows the post: the body of a 200, an API error, or an exception
\* raised by requests.post or by reading the body
http_result(outcome) ==
    CASE outcome.kind = "ok" -> [value |-> outcome.body, error |-> None]
      [] outcome.kind = "status" ->
            [value |-> None,
             error |-> Str("API Error: " \o outcome.status \o " - " \o outcome.text)]
      [] outcome.kind = "exception" ->
            [value |-> None, error |-> Str("Exception: " \o outcome.message)]

\* transcribe_audio whose last branch posts the (absent) file
transcribe_audio_no_else(audio_url, audio_file, session_key, default_key, outcome) ==
    LET api_key == api_key_in_use(session_key, default_key)
    IN  IF ~Truthy(api_key)
        THEN [result |-> None, error |-> Str(KeyRequiredLong), posted |-> <<>>]
        ELSE IF Truthy(audio_url)
        THEN [result |-> http_result(outcome).value, error |-> http_result(outcome).error,
              posted |-> <<[api |-> "transcription", key |-> api_key.v, ref |-> audio_url]>>]
        ELSE [result |-> http_result(outcome).value, error |-> http_result(outcome).error,
              posted |-> <<[api |-> "transcription", key |-> api_key.v, ref |-> audio_file]>>]

\* (result, error) and the requests posted on the way
transcribe_audio(audio_url, audio_file, session_key, default_key, outcome) ==
    LET api_key == api_key_in_use(session_key, default_key)
    IN  IF ~Truthy(api_key)
        THEN [result |-> None, error |-> Str(KeyRequiredLong), posted |-> <<>>]
        ELSE IF Truthy(audio_url)
        THEN [result |-> http_result(outcome).value, error |-> http_result(outcome).error,
              posted |-> <<[api |-> "transcription", key |-> api_key.v, ref |-> audio_url]>>]
        ELSE IF Truthy(audio_file)
        THEN [result |-> http_result(outcome).value, error |-> http_result(outcome).error,
              posted |-> <<[api |-> "transcription", key |-> api_key.v, ref |-> audio_file]>>]
        ELSE [result |-> None, error |-> Str("No audio provided"), posted |-> <<>>]

\* (content, error) and the requests posted on the way
chat_with_transcript(prompt, session_key, default_key, outcome) ==
    LET api_key == api_key_in_use(session_key, default_key)
    IN  IF ~Truthy(api_key)
        THEN [content |-> None, error |-> Str("API key is required."), posted |-> <<>>]
        ELSE [content |-> http_result(outcome).value, error |-> http_result(outcome).error,
              posted |-> <<[api |-> "chat", key |-> api_key.v, ref |-> prompt]>>]

\* what the transcription service may answer
TranscriptionPayloads ==
    { [text |-> <<"u","m"," ","h","e","l","l","o">>, segments |-> DistinctSegments(4)], EmptyDict }

ServiceFailures ==
    { [kind |-> "status", status |-> "500", text |-> "Internal Server Error"],
      [kind |-> "exception", message |-> "Connection refused"] }

TranscriptionOutcomes ==
    {[kind |-> "ok", body |-> Dict(p)] : p \in TranscriptionPayloads} \cup ServiceFailures

\* the f-string of a prompt: its instruction and the transcript it embeds
Prompt(name, transcript) == [instruction |-> name, transcript |-> transcript]

\* the local variable each chat call is assigned to, in call order
PromptOrder == <<"strengths", "improvements", "scoring_text", "follow_up">>

ScoringGood ==
    <<"C","o","m","m","u","n","i","c","a","t","i","o","n",":"," ","7","/","1","0"," ","T","e","c","h","n","i","c","a","l"," ","S","k","i","l","l",":"," ","8","/","1","0"," ","S","T","A","R"," ","M","e","t","h","o","d"," ","U","s","a","g","e",":"," ","6","/","1","0">>
ScoringPartial ==
    <<"C","o","m","m","u","n","i","c","a","t","i","o","n",":"," ","7","/","1","0"," ","T","e","c","h","n","i","c","a","l"," ","S","k","i","l","l",":"," ","8","/","1","0">>
ScoringMalformed ==
    <<"*","*","C","o","m","m","u","n","i","c","a","t","i","o","n",":","*","*"," ","7","/","1","0">>

\* the texts the chat service may answer a prompt with
ChatContents(name) ==
    CASE name = "strengths" -> { <<>>, <<"- explains trade-offs clearly">> }
      [] name = "improvements" -> { <<>>, <<"- give shorter answers">> }
      [] name = "scoring_text" -> { ScoringGood, ScoringPartial, ScoringMalformed }
      [] name = "follow_up" -> { <<>>, <<"1. Which design would you change?">> }

ChatOutcomes(name) ==
    {[kind |-> "ok", body |-> Txt(c)] : c \in ChatContents(name)} \cup ServiceFailures

----------------------------------------------------------------------------
(* analyze_interview (src/app.py:165-197) and process_interview              *)
(* (src/app.py:256-277), one step per HTTP call.                             *)

FallbackStrengths == <<"Could not analyze strengths.">>
FallbackImprovements == <<"Could not analyze areas for improvement.">>
FallbackFollowUp == <<"Could not generate follow-up questions.">>

\* value or fallback
or_fallback(value, fallback) == IF Truthy(value) THEN value.v ELSE fallback

\* parse_scores of every text scoring_text can hold here, computed once
parsed_scores ==
    [t \in {None} \cup {Txt(c) : c \in ChatContents("scoring_text")} |-> parse_scores(t)]

\* analyze_interview answering with fallbacks only as soon as one call failed
analysis_results_all_or_nothing(l) ==
    IF \E name \in {"strengths", "improvements", "scoring_text", "follow_up"} :
            l[name] = None
    THEN [strengths |-> FallbackStrengths, improvements |-> FallbackImprovements,
          scores |-> ZeroScores, follow_up |-> FallbackFollowUp]
    ELSE [strengths |-> or_fallback(l.strengths, FallbackStrengths),
          improvements |-> or_fallback(l.improvements, FallbackImprovements),
          scores |-> parsed_scores[l.scoring_text],
          follow_up |-> or_fallback(l.follow_up, FallbackFollowUp)]

\* the dict analyze_interview returns, from what the four calls returned
analysis_results(l) ==
    [strengths |-> or_fallback(l.strengths, FallbackStrengths),
     improvements |-> or_fallback(l.improvements, FallbackImprovements),
     scores |-> parsed_scores[l.scoring_text],
     follow_up |-> or_fallback(l.follow_up, FallbackFollowUp)]

\* process_interview going on to the analysis whatever transcribe_audio returned
after_transcribe_ignoring_error(error) == "chat"

\* where process_interview goes after transcribe_audio: `if error: ... return`
after_transcribe(error) == IF Truthy(error) THEN "idle" ELSE "chat"

\* analyze_interview giving up on the remaining calls after a failed one
after_chat_stop_on_failure(step, content) ==
    IF step = Len(PromptOrder) \/ content = None THEN "rerun" ELSE "chat"

\* where analyze_interview goes after its step-th call: the calls follow one
\* another unconditionally, then the results are stored and st.rerun() is called
after_chat(step, content) == IF step = Len(PromptOrder) THEN "rerun" ELSE "chat"

\* process_interview storing the transcription without segmenting it again
store_transcription_keeping_stages(ss, result) ==
    [ss EXCEPT !.transcript = DictGet(result, "text", <<>>),
               !.segments = DictGet(result, "segments", <<>>)]

\* process_interview storing the transcription (src/app.py:266-268)
store_transcription(ss, result) ==
    [ss EXCEPT !.transcript = DictGet(result, "text", <<>>),
               !.segments = DictGet(result, "segments", <<>>),
               !.conversation_stages =
                   segment_conversation(DictGet(result, "segments", <<>>))]

\* process_interview storing the analysis (src/app.py:272-275)
store_analysis(ss, results) ==
    [ss EXCEPT !.strengths = results.strengths,
               !.improvements = results.improvements,
               !.candidate_scores = results.scores,
               !.follow_up_questions = results.follow_up]

\* the top of render_audio_upload (src/app.py:235-244): a widget that holds a
\* value overwrites the session's, an empty widget leaves the session's alone
store_widgets(ss, w) ==
    [ss EXCEPT !.uploaded_audio = IF Truthy(w.file) THEN w.file ELSE @,
               !.audio_url = IF w.url # "" THEN w.url ELSE @]

----------------------------------------------------------------------------
(* The application: user interactions, each followed by a run of the script. *)

Init ==
    /\ session_state = InitialSessionState
    /\ widgets = NoWidgets
    /\ DEFAULT_MISTRAL_API_KEY \in {None, Str("envkey")}
    /\ pc = "idle"
    /\ requests = <<>>
    /\ locals = NoLocals
    /\ ui_error = None
    /\ arg = None
    /\ ret = None
    /\ origin = NoOrigin

\* a script run that the Analyze button did not start
Interact(w, ss) ==
    /\ pc = "idle"
    /\ widgets' = w
    /\ session_state' = store_widgets(ss, w)
    /\ ui_error' = None
    /\ requests' = <<>>
    /\ UNCHANGED <<DEFAULT_MISTRAL_API_KEY, pc, locals, arg, ret, origin>>

UploadFile ==
    \E f \in Files : Interact([widgets EXCEPT !.file = File(f)], session_state)

RemoveFile ==
    /\ widgets.file # None
    /\ Interact([widgets EXCEPT !.file = None], session_state)

EnterUrl ==
    \E u \in Urls : Interact([widgets EXCEPT !.url = u], session_state)

ClearUrl ==
    /\ widgets.url # ""
    /\ Interact([widgets EXCEPT !.url = ""], session_state)

\* render_header (src/app.py:219-222)
EnterApiKey ==
    \E k \in Keys : Interact(widgets, [session_state EXCEPT !.api_key = k])

\* the Analyze button (src/app.py:248-254)
ClickAnalyze ==
    /\ pc = "idle"
    /\ requests' = <<>>
    /\ LET ss == store_widgets(session_state, widgets)
       IN  IF Truthy(ss.uploaded_audio) \/ ss.audio_url # ""
           THEN /\ session_state' = [ss EXCEPT !.processing = TRUE]
                /\ pc' = "transcribe"
                /\ ui_error' = None
           ELSE /\ session_state' = ss
                /\ pc' = "idle"
                /\ ui_error' = Str("Please upload an audio file or provide a URL.")
    /\ UNCHANGED <<widgets, DEFAULT_MISTRAL_API_KEY, locals, arg, ret, origin>>

\* process_interview, step 1 (src/app.py:258-268); on an error the button
\* handler resets processing (src/app.py:252)
Transcribe ==
    /\ pc = "transcribe"
    /\ \E outcome \in TranscriptionOutcomes :
        LET r == transcribe_audio(Str(session_state.audio_url),
                                  session_state.uploaded_audio,
                                  session_state.api_key, DEFAULT_MISTRAL_API_KEY, outcome)
        IN  /\ requests' = requests \o r.posted
            /\ pc' = after_transcribe(r.error)
            /\ IF Truthy(r.error)
               THEN /\ ui_error' = Str("Transcription Error: " \o r.error.v)
                    /\ session_state' = [session_state EXCEPT !.processing = FALSE]
                    /\ origin' = IF after_transcribe(r.error) = "idle"
                                 THEN run_over(origin) ELSE origin
               ELSE /\ ui_error' = None
                    /\ session_state' = store_transcription(session_state, r.result.v)
                    /\ origin' = written(transcription_succeeded(origin),
                                         TranscriptionFields)
    /\ locals' = NoLocals
    /\ UNCHANGED <<widgets, DEFAULT_MISTRAL_API_KEY, arg, ret>>

\* analyze_interview: the next chat call (src/app.py:174-177); after the last
\* one the scores are parsed, the results stored (src/app.py:179-197, 272-275)
\* and st.rerun() is reached
Chat ==
    /\ pc = "chat"
    /\ LET name == PromptOrder[locals.step + 1]
       IN  \E outcome \in ChatOutcomes(name) :
            LET r == chat_with_transcript(Prompt(name, session_state.transcript),
                                          session_state.api_key,
                                          DEFAULT_MISTRAL_API_KEY, outcome)
                l == [locals EXCEPT ![name] = r.content, !.step = @ + 1]
            IN  /\ locals' = l
                /\ requests' = requests \o r.posted
                /\ pc' = after_chat(l.step, r.content)
                /\ IF after_chat(l.step, r.content) = "rerun"
                   THEN /\ session_state' =
                             store_analysis(session_state, analysis_results(l))
                        /\ origin' = written(origin, AnalysisFields)
                   ELSE UNCHANGED <<session_state, origin>>
    /\ UNCHANGED <<widgets, DEFAULT_MISTRAL_API_KEY, ui_error, arg, ret>>

\* st.rerun() (src/app.py:277): the script starts over, line 252 is not
\* reached and processing stays True
Rerun ==
    /\ pc = "rerun"
    /\ pc' = "idle"
    /\ locals' = NoLocals
    /\ requests' = <<>>
    /\ ui_error' = None
    /\ session_state' = store_widgets(session_state, widgets)
    /\ origin' = run_over(origin)
    /\ UNCHANGED <<widgets, DEFAULT_MISTRAL_API_KEY, arg, ret>>

Next ==
    \/ UploadFile
    \/ RemoveFile
    \/ EnterUrl
    \/ ClearUrl
    \/ EnterApiKey
    \/ ClickAnalyze
    \/ Transcribe
    \/ Chat
    \/ Rerun

Spec == Init /\ [][Next]_vars

----------------------------------------------------------------------------
(* transcribe_audio called on its own. *)

InitTranscribe ==
    /\ session_state \in {[InitialSessionState EXCEPT !.api_key = k] : k \in Keys \cup {""}}
    /\ widgets = NoWidgets
    /\ DEFAULT_MISTRAL_API_KEY \in {None, Str(""), Str("envkey")}
    /\ requests = <<>>
    /\ locals = NoLocals
    /\ ui_error = None
    /\ origin = NoOrigin
    /\ pc = "call"
    /\ arg \in [audio_url : {None, Str("")} \cup {Str(u) : u \in Urls},
                audio_file : {None} \cup {File(f) : f \in Files}]
    /\ ret = None

CallTranscribeAudio ==
    /\ pc = "call"
    /\ \E outcome \in TranscriptionOutcomes :
        LET r == transcribe_audio(arg.audio_url, arg.audio_file, session_state.api_key,
                                  DEFAULT_MISTRAL_API_KEY, outcome)
        IN  /\ ret' = [result |-> r.result, error |-> r.error]
            /\ requests' = requests \o r.posted
    /\ pc' = "return"
    /\ UNCHANGED <<session_state, widgets, DEFAULT_MISTRAL_API_KEY, locals, ui_error,
                   arg, origin>>

SpecTranscribe == InitTranscribe /\ [][CallTranscribeAudio]_vars

----------------------------------------------------------------------------
(* Claims about the HTTP boundaries and the run. *)

IsChat(r) == r.api = "chat"
IsTranscription(r) == r.api = "transcription"

\* the local variables of the three text prompts, where each is stored, and
\* the fallback of each
TextFields ==
    { [local |-> "strengths", stored |-> "strengths", fallback |-> FallbackStrengths],
      [local |-> "improvements", stored |-> "improvements",
       fallback |-> FallbackImprovements],
      [local |-> "follow_up", stored |-> "follow_up_questions",
       fallback |-> FallbackFollowUp] }

\* the chat calls of the finished analysis that returned an error
FailedCalls == {i \in 1..Len(PromptOrder) : locals[PromptOrder[i]] = None}

\* C3 as stated: when exactly one of the four chat requests fails, each of the
\* three successful requests' results is the value derived from its own
\* response, not a fallback, and the failed request's result is its fallback.
C3_OneFailureOthersFromResponses ==
    (pc = "rerun" /\ Cardinality(FailedCalls) = 1) =>
        /\ \A f \in TextFields :
              IF locals[f.local] = None
              THEN session_state[f.stored] = f.fallback
              ELSE /\ session_state[f.stored] = locals[f.local].v
                   /\ session_state[f.stored] # f.fallback
        /\ IF locals.scoring_text = None
           THEN session_state.candidate_scores = ZeroScores
           ELSE session_state.candidate_scores = parse_scores(locals.scoring_text)

\* C3 as amended: when exactly one of the four chat requests fails, each
\* successful text request with a non-empty response is stored as that
\* response, a successful one whose response is the empty text is stored as
\* its fallback string, the scores are parsed from the scoring response, and
\* the failed request's result is its fallback (the all-zero map for scoring).
C3_OneFailureOthersKept ==
    (pc = "rerun" /\ Cardinality(FailedCalls) = 1) =>
        /\ \A f \in TextFields :
              IF locals[f.local] = None
              THEN session_state[f.stored] = f.fallback
              ELSE IF locals[f.local].v # <<>>
              THEN session_state[f.stored] = locals[f.local].v
              ELSE session_state[f.stored] = f.fallback
        /\ IF locals.scoring_text = None
           THEN session_state.candidate_scores = ZeroScores
           ELSE session_state.candidate_scores = parse_scores(locals.scoring_text)

\* only the improvements request failed; the other three results are the
\* responses
C3_Witness ==
    /\ pc = "rerun"
    /\ FailedCalls = {2}
    /\ session_state.improvements = FallbackImprovements
    /\ session_state.strengths = locals.strengths.v
    /\ session_state.strengths # <<>>
    /\ session_state.follow_up_questions = locals.follow_up.v
    /\ session_state.follow_up_questions # <<>>
    /\ session_state.candidate_scores =
          [communication |-> 7, technical_skill |-> 8, star_method_usage |-> 6]

\* the errors transcribe_audio can return, as process_interview shows them
TranscriptionErrors ==
    {Str("Transcription Error: " \o m) :
        m \in {KeyRequiredLong, "No audio provided"}
              \cup {http_result(o).error.v : o \in ServiceFailures}}

\* C4: once transcribe_audio has returned an error (missing key, non-200
\* status, exception) the run is over: the script is idle again and the run
\* has posted no chat-completion request and started no analysis.
C4_NoChatAfterTranscriptionError ==
    ui_error \in TranscriptionErrors =>
        /\ pc = "idle"
        /\ locals = NoLocals
        /\ \A i \in 1..Len(requests) : ~IsChat(requests[i])

\* the transcription service answered 500: one request, the transcription one
C4_Witness ==
    /\ ui_error = Str("Transcription Error: API Error: 500 - Internal Server Error")
    /\ Len(requests) = 1
    /\ IsTranscription(requests[1])
    /\ pc = "idle"

\* C9: analyze_interview posts its chat requests in the order strengths,
\* improvements, scoring, follow-up, each embedding the transcript, whatever
\* the earlier calls returned: after k calls returned, exactly the first k
\* requests were posted and the next call can be made; when it ends, exactly
\* four were posted and the four results are stored.
C9_FourChatCallsInOrder ==
    LET chats == SelectSeq(requests, IsChat)
    IN  /\ pc = "chat" =>
              /\ Len(chats) = locals.step
              /\ locals.step < Len(PromptOrder)
              /\ ENABLED Chat
        /\ pc = "rerun" =>
              /\ Len(chats) = Len(PromptOrder)
              /\ session_state.strengths # <<>>
              /\ session_state.improvements # <<>>
              /\ session_state.follow_up_questions # <<>>
              /\ DOMAIN session_state.candidate_scores \subseteq ScoreKeys
        /\ pc \in {"chat", "rerun"} =>
              \A i \in 1..Len(chats) :
                  chats[i].ref = Prompt(PromptOrder[i], session_state.transcript)

\* the first and the third call failed, and all four requests were posted
C9_Witness ==
    /\ pc = "rerun"
    /\ FailedCalls = {1, 3}
    /\ Len(SelectSeq(requests, IsChat)) = 4
    /\ session_state.follow_up_questions = locals.follow_up.v

\* the audio references the user supplies now
SuppliedNow ==
    {r \in {widgets.file, Str(widgets.url)} : Truthy(r)}

\* C10: the transcription request of a run carries an audio reference the
\* user supplies in the current interaction, never one that only session
\* state retains from an earlier interaction.
C10_RequestCarriesCurrentReference ==
    \A i \in 1..Len(requests) :
        IsTranscription(requests[i]) => requests[i].ref \in SuppliedNow

StoredResults(ss) == [f \in StoredFields |-> ss[f]]

\* no run is in progress, and the stored fields were all written by the most
\* recent run whose transcription succeeded
AllFromLatestRun ==
    /\ pc = "idle"
    /\ \A f \in StoredFields : origin.field[f] = "latest"

\* a run halts at a transcription failure
TranscriptionFails ==
    /\ pc = "transcribe"
    /\ ui_error' \in TranscriptionErrors

====
